---- MODULE Spec2Model ----
(***************************************************************************)
(* Job registry, transcript cache and background task runner of app.py.   *)
(*                                                                         *)
(* The request handlers are coroutines on one event loop: a handler       *)
(* without an await runs atomically with respect to other handlers.       *)
(* run_job is a plain function, so the framework runs it on a worker      *)
(* thread: its statements interleave with the handlers and with the       *)
(* run_job of every other job.  Each statement of run_job that touches    *)
(* shared state is one action here.                                       *)
(***************************************************************************)
EXTENDS Integers, Sequences, FiniteSets, TLC

\* ------------------------------------------------------------------ bounds
\* Jobs created in a run of the program.
MaxJobs == 2
\* Jobs created in a run in which the status of the jobs is polled.
MaxPolledJobs == 1
\* Calls of the progress callback by one call of process_video.
MaxProgress == 2

\* The length of the strings of a result structure when the cache is saved
\* and loaded.
MaxStr == 2

\* ------------------------------------------------------------ value spaces
\* Python's None.
None == "None"

\* A URL is a sequence of pieces; " " is a run of whitespace.
Urls ==
    { <<>>,
      <<" ">>,
      <<"ftp://example.org/file">>,
      <<"https://youtu.be/", "abc123">>,
      <<" ", "https://www.youtube.com/watch?v=", "abc123", " ">>,
      <<"https://youtu.be/", "xyz789">> }

\* The result structures process_video can return, by name.  process_video
\* is not deterministic: two calls for one video may return different ones.
Results == {"r1", "r2"}

\* The fields of a result structure the handlers read.
ResultFields ==
    [r \in Results |->
        IF r = "r1"
        THEN [title |-> "Talk", markdown |-> "# Talk", filename |-> "talk.md"]
        ELSE [title |-> "Talk (2)", markdown |-> "# Talk 2", filename |-> "talk2.md"]]

\* Messages of the exceptions process_video can raise.
ProcessErrors == {"No transcript available"}

\* Messages process_video passes to its progress callback.
Messages == {"Fetching transcript...", "Cleaning transcript..."}

\* Messages of the exceptions save_cache can raise.
PermissionDenied == "[Errno 13] Permission denied"
NoSpaceLeft == "[Errno 28] No space left on device"
DictChangedSize == "dictionary changed size during iteration"
SaveErrors == {PermissionDenied, NoSpaceLeft, DictChangedSize}

\* ------------------------------------------------------------- dictionary
\* A Python dict keeps insertion order: a sequence of [k, v] items.
Keys(d) == {d[i].k : i \in 1..Len(d)}

Has(d, key) == key \in Keys(d)

IndexOf(d, key) == CHOOSE i \in 1..Len(d) : d[i].k = key

Get(d, key) == d[IndexOf(d, key)].v

\* d[key] = value: a new key is appended, an old key keeps its place.
Put(d, key, value) ==
    IF Has(d, key)
    THEN [d EXCEPT ![IndexOf(d, key)].v = value]
    ELSE Append(d, [k |-> key, v |-> value])

\* ------------------------------------------------------------------- file
\* The cache file is a sequence of tokens, the unit in which the encoder
\* hands text to the file object.
LBrace == [t |-> "{", k |-> "", v |-> ""]
RBrace == [t |-> "}", k |-> "", v |-> ""]
Nul == [t |-> "nul", k |-> "", v |-> ""]
Item(key, value) == [t |-> "item", k |-> key, v |-> value]

\* No file on disk.
Missing == <<[t |-> "missing", k |-> "", v |-> ""]>>

\* What json.dump writes for the dict d, as one text.
Dumps(d) == <<LBrace>> \o [i \in 1..Len(d) |-> Item(d[i].k, d[i].v)] \o <<RBrace>>

\* The text a decoder accepts: one opening brace, items, one closing brace.
WellFormed(f) ==
    /\ Len(f) >= 2
    /\ f[1] = LBrace
    /\ f[Len(f)] = RBrace
    /\ \A i \in 2..(Len(f) - 1) : f[i].t = "item"

\* The dict the decoder builds from items: a repeated key keeps its first
\* place and takes its last value.
RECURSIVE Collect(_, _)
Collect(items, d) ==
    IF items = <<>> THEN d
    ELSE Collect(Tail(items), Put(d, Head(items).k, Head(items).v))

\* json.load on a well-formed text.
Loads(f) == Collect(SubSeq(f, 2, Len(f) - 1), <<>>)

\* Writing text at offset pos (from 1) of file f: bytes under the text are
\* replaced, a gap before pos is filled with NUL, the rest of f stays.
MaxOf(a, b) == IF a >= b THEN a ELSE b

WriteAt(f, pos, text) ==
    [i \in 1..MaxOf(Len(f), pos + Len(text) - 1) |->
        IF i >= pos /\ i < pos + Len(text) THEN text[i - pos + 1]
        ELSE IF i <= Len(f) THEN f[i]
        ELSE Nul]

\* What a call that raised JSONDecodeError gives instead of a dict.
JSONDecodeError == <<[t |-> "raise", k |-> "JSONDecodeError", v |-> ""]>>

\* load_cache with the bug of having no try/except around json.load.
load_cache_unguarded(file) ==
    IF file = Missing THEN <<>>
    ELSE IF WellFormed(file) THEN Loads(file)
    ELSE JSONDecodeError

\* load_cache(): the decoded file, or {} when it is missing or does not parse.
load_cache(file) ==
    IF file = Missing THEN <<>>
    ELSE IF WellFormed(file) THEN Loads(file)
    ELSE <<>>

\* ---------------------------------------------------------------- strings
\* url.strip()
RECURSIVE LStrip(_)
LStrip(s) == IF s # <<>> /\ Head(s) = " " THEN LStrip(Tail(s)) ELSE s

RECURSIVE RStrip(_)
RStrip(s) ==
    IF s # <<>> /\ s[Len(s)] = " " THEN RStrip(SubSeq(s, 1, Len(s) - 1)) ELSE s

Strip(s) == RStrip(LStrip(s))

\* extract_video_id(url): the id, or None when it raises.
VideoPrefixes == {"https://youtu.be/", "https://www.youtube.com/watch?v="}

extract_video_id(url) ==
    IF Len(url) = 2 /\ url[1] \in VideoPrefixes THEN url[2] ELSE None

VideoIds == {extract_video_id(Strip(u)) : u \in Urls} \ {None}

\* ------------------------------------------------------------------ state
VARIABLES
    jobs,             \* jobs: job id -> {status, progress, result, error}
    transcript_cache, \* transcript_cache: video id -> result
    cache_file,       \* the content of CACHE_FILE on disk
    GOOGLE_API_KEY,   \* os.environ["GOOGLE_API_KEY"], None when not set
    tasks,            \* job id -> the run_job closure of the job and where it is
    status_call,      \* the status() call in progress
    download_call,    \* the download() or download_pdf() call in progress
    response,         \* the response the step just taken returned, if it returned one
    submissions,      \* job id -> what transcribe() saw when it created the job
    last_saved        \* the text written by the last save_cache that returned

vars ==
    <<jobs, transcript_cache, cache_file, GOOGLE_API_KEY, tasks, status_call,
      download_call, response, submissions, last_saved>>

\* uuid4 never repeats: job ids are 1, 2, ... in order of creation.
JobIds == 1..Len(jobs)

\* A job that was answered from the cache has no task.
NoTask ==
    [pc |-> "none", video_id |-> None, result |-> None, e |-> None, nprog |-> 0,
     used |-> 0, it |-> 0, text |-> <<>>, flushed |-> 0, emitted |-> <<>>]

\* The closure of run_job when background_tasks.add_task(run_job) returns.
NewTask(video_id) == [NoTask EXCEPT !.pc = "process_video", !.video_id = video_id]

\* ------------------------------------------------------------- responses
NoFields == [title |-> None, markdown |-> None, filename |-> None]

\* One shape for every response; `has` is the set of keys of the JSON body.
Reply(handler, code) ==
    [handler |-> handler, code |-> code, detail |-> None, job_id |-> 0,
     has |-> {}, status |-> None, progress |-> None, result |-> NoFields,
     error |-> None, media_type |-> None, content |-> None, title |-> None,
     stylesheet |-> <<>>, font |-> None]

HTTPException(handler, code, detail) ==
    [Reply(handler, code) EXCEPT !.detail = detail, !.has = {"detail"}]

TranscribeResponse(job_id) ==
    [Reply("transcribe", 200) EXCEPT !.job_id = job_id, !.has = {"job_id"}]

\* The step just taken returned no response.
NoResponse == Reply("none", 0)

NoCall == [pc |-> "idle", job_id |-> 0, response |-> Reply("status", 200)]

\* No download() or download_pdf() call is in progress.
NoDownload == [pc |-> "idle", handler |-> "none", job_id |-> 0, status |-> None]

\* ------------------------------------------------------------------- Init
\* The files a previous run of the program can have left behind: none, a
\* complete save, and a save that stopped after the first item.
InitialFiles ==
    { Missing,
      Dumps(<<[k |-> "abc123", v |-> "r1"]>>),
      <<LBrace, Item("abc123", "r1")>> }

Init ==
    /\ jobs = <<>>
    /\ cache_file \in InitialFiles
    /\ transcript_cache = load_cache(cache_file)
    /\ GOOGLE_API_KEY \in {None, "key"}
    /\ tasks = <<>>
    /\ status_call = NoCall
    /\ download_call = NoDownload
    /\ response = NoResponse
    /\ submissions = <<>>
    /\ last_saved = cache_file

\* ------------------------------------------------------- POST /transcribe
\* The results of the jobs of video_id whose status reads "completed".
CompletedResults(video_id) ==
    {jobs[j].result : j \in {i \in JobIds : /\ submissions[i].video_id = video_id
                                            /\ jobs[i].status = "completed"}}

Submission(video_id, cached) ==
    [video_id |-> video_id, cached |-> cached, seen |-> CompletedResults(video_id)]

\* Transcribe with the bug of scheduling the task without a credential.
TranscribeWithoutKey(u) ==
    LET url == Strip(u)
        video_id == extract_video_id(url)
        job_id == Len(jobs) + 1
    IN  /\ status_call.pc = "idle"
        /\ download_call.pc = "idle"
        /\ IF url = <<>>
           THEN /\ response' = HTTPException("transcribe", 400, "URL is required")
                /\ UNCHANGED <<jobs, tasks, submissions>>
           ELSE IF video_id = None
           THEN /\ response' = HTTPException("transcribe", 400, "Could not extract video ID")
                /\ UNCHANGED <<jobs, tasks, submissions>>
           ELSE IF Has(transcript_cache, video_id)
           THEN /\ job_id <= MaxJobs
                /\ jobs' = Append(jobs, [status |-> "completed",
                                         progress |-> "Loaded from cache",
                                         result |-> Get(transcript_cache, video_id),
                                         error |-> None])
                /\ tasks' = Append(tasks, NoTask)
                /\ submissions' = Append(submissions, Submission(video_id, TRUE))
                /\ response' = TranscribeResponse(job_id)
           ELSE /\ job_id <= MaxJobs
                /\ jobs' = Append(jobs, [status |-> "processing",
                                         progress |-> "Starting...",
                                         result |-> None,
                                         error |-> None])
                /\ tasks' = Append(tasks, NewTask(video_id))
                /\ submissions' = Append(submissions, Submission(video_id, FALSE))
                /\ response' = TranscribeResponse(job_id)
        /\ UNCHANGED <<transcript_cache, cache_file, GOOGLE_API_KEY, status_call, download_call,
                       last_saved>>

\* Transcribe with the bug of accepting a URL extract_video_id rejects.
TranscribeAnyUrl(u) ==
    LET url == Strip(u)
        video_id == extract_video_id(url)
        job_id == Len(jobs) + 1
    IN  /\ status_call.pc = "idle"
        /\ download_call.pc = "idle"
        /\ IF url = <<>>
           THEN /\ response' = HTTPException("transcribe", 400, "URL is required")
                /\ UNCHANGED <<jobs, tasks, submissions>>
           ELSE IF Has(transcript_cache, video_id)
           THEN /\ job_id <= MaxJobs
                /\ jobs' = Append(jobs, [status |-> "completed",
                                         progress |-> "Loaded from cache",
                                         result |-> Get(transcript_cache, video_id),
                                         error |-> None])
                /\ tasks' = Append(tasks, NoTask)
                /\ submissions' = Append(submissions, Submission(video_id, TRUE))
                /\ response' = TranscribeResponse(job_id)
           ELSE IF GOOGLE_API_KEY = None
           THEN /\ response' = HTTPException("transcribe", 500, "GOOGLE_API_KEY not configured")
                /\ UNCHANGED <<jobs, tasks, submissions>>
           ELSE /\ job_id <= MaxJobs
                /\ jobs' = Append(jobs, [status |-> "processing",
                                         progress |-> "Starting...",
                                         result |-> None,
                                         error |-> None])
                /\ tasks' = Append(tasks, NewTask(video_id))
                /\ submissions' = Append(submissions, Submission(video_id, FALSE))
                /\ response' = TranscribeResponse(job_id)
        /\ UNCHANGED <<transcript_cache, cache_file, GOOGLE_API_KEY, status_call, download_call,
                       last_saved>>

\* Transcribe with the bug of checking the credential before the cache.
TranscribeKeyFirst(u) ==
    LET url == Strip(u)
        video_id == extract_video_id(url)
        job_id == Len(jobs) + 1
    IN  /\ status_call.pc = "idle"
        /\ download_call.pc = "idle"
        /\ IF url = <<>>
           THEN /\ response' = HTTPException("transcribe", 400, "URL is required")
                /\ UNCHANGED <<jobs, tasks, submissions>>
           ELSE IF video_id = None
           THEN /\ response' = HTTPException("transcribe", 400, "Could not extract video ID")
                /\ UNCHANGED <<jobs, tasks, submissions>>
           ELSE IF GOOGLE_API_KEY = None
           THEN /\ response' = HTTPException("transcribe", 500, "GOOGLE_API_KEY not configured")
                /\ UNCHANGED <<jobs, tasks, submissions>>
           ELSE IF Has(transcript_cache, video_id)
           THEN /\ job_id <= MaxJobs
                /\ jobs' = Append(jobs, [status |-> "completed",
                                         progress |-> "Loaded from cache",
                                         result |-> Get(transcript_cache, video_id),
                                         error |-> None])
                /\ tasks' = Append(tasks, NoTask)
                /\ submissions' = Append(submissions, Submission(video_id, TRUE))
                /\ response' = TranscribeResponse(job_id)
           ELSE /\ job_id <= MaxJobs
                /\ jobs' = Append(jobs, [status |-> "processing",
                                         progress |-> "Starting...",
                                         result |-> None,
                                         error |-> None])
                /\ tasks' = Append(tasks, NewTask(video_id))
                /\ submissions' = Append(submissions, Submission(video_id, FALSE))
                /\ response' = TranscribeResponse(job_id)
        /\ UNCHANGED <<transcript_cache, cache_file, GOOGLE_API_KEY, status_call, download_call,
                       last_saved>>

\* transcribe(): it has no await, and the only shared value it reads twice,
\* transcript_cache, only ever gains keys, so it is one step.
Transcribe(u) ==
    LET url == Strip(u)
        video_id == extract_video_id(url)
        job_id == Len(jobs) + 1
    IN  /\ status_call.pc = "idle"
        /\ download_call.pc = "idle"
        /\ IF url = <<>>
           THEN /\ response' = HTTPException("transcribe", 400, "URL is required")
                /\ UNCHANGED <<jobs, tasks, submissions>>
           ELSE IF video_id = None
           THEN /\ response' = HTTPException("transcribe", 400, "Could not extract video ID")
                /\ UNCHANGED <<jobs, tasks, submissions>>
           ELSE IF Has(transcript_cache, video_id)
           THEN /\ job_id <= MaxJobs
                /\ jobs' = Append(jobs, [status |-> "completed",
                                         progress |-> "Loaded from cache",
                                         result |-> Get(transcript_cache, video_id),
                                         error |-> None])
                /\ tasks' = Append(tasks, NoTask)
                /\ submissions' = Append(submissions, Submission(video_id, TRUE))
                /\ response' = TranscribeResponse(job_id)
           ELSE IF GOOGLE_API_KEY = None
           THEN /\ response' = HTTPException("transcribe", 500, "GOOGLE_API_KEY not configured")
                /\ UNCHANGED <<jobs, tasks, submissions>>
           ELSE /\ job_id <= MaxJobs
                /\ jobs' = Append(jobs, [status |-> "processing",
                                         progress |-> "Starting...",
                                         result |-> None,
                                         error |-> None])
                /\ tasks' = Append(tasks, NewTask(video_id))
                /\ submissions' = Append(submissions, Submission(video_id, FALSE))
                /\ response' = TranscribeResponse(job_id)
        /\ UNCHANGED <<transcript_cache, cache_file, GOOGLE_API_KEY, status_call, download_call,
                       last_saved>>

\* ------------------------------------------------------- run_job, line 129
\* The task of job j is at program point pc.
At(j, pc) == j \in JobIds /\ tasks[j].pc = pc

\* ProgressCallback with the bug of keeping the first message.
ProgressCallbackKeepsFirst(j, message) ==
    /\ At(j, "process_video")
    /\ tasks[j].nprog < MaxProgress
    /\ jobs' = [jobs EXCEPT ![j].progress = IF tasks[j].nprog = 0 THEN message ELSE @]
    /\ tasks' = [tasks EXCEPT ![j].nprog = @ + 1, ![j].emitted = Append(@, message)]
    /\ response' = NoResponse
    /\ UNCHANGED <<transcript_cache, cache_file, GOOGLE_API_KEY, status_call, download_call,
                   submissions, last_saved>>

\* progress_callback(message), called by process_video while it runs.
\* `emitted` records the messages process_video has passed so far.
ProgressCallback(j, message) ==
    /\ At(j, "process_video")
    /\ tasks[j].nprog < MaxProgress
    /\ jobs' = [jobs EXCEPT ![j].progress = message]
    /\ tasks' = [tasks EXCEPT ![j].nprog = @ + 1, ![j].emitted = Append(@, message)]
    /\ response' = NoResponse
    /\ UNCHANGED <<transcript_cache, cache_file, GOOGLE_API_KEY, status_call, download_call,
                   submissions, last_saved>>

\* result = process_video(url, api_key, progress_callback) returns r, and
\* jobs[job_id]["status"] = "completed".  The return touches nothing that
\* another thread can see, so it is one step with the write after it.
ProcessVideoReturns(j, r) ==
    /\ At(j, "process_video")
    /\ jobs' = [jobs EXCEPT ![j].status = "completed"]
    /\ tasks' = [tasks EXCEPT ![j].result = r, ![j].pc = "set_result"]
    /\ response' = NoResponse
    /\ UNCHANGED <<transcript_cache, cache_file, GOOGLE_API_KEY, status_call, download_call,
                   submissions, last_saved>>

\* An exception with message `message` is raised inside the try of run_job
\* and caught by `except Exception as e`.  The locals of save_cache are gone.
Raise(j, message) ==
    tasks' = [tasks EXCEPT ![j].e = message, ![j].pc = "except_status",
                           ![j].used = 0, ![j].it = 0,
                           ![j].text = <<>>, ![j].flushed = 0]

\* ProcessVideoRaises with the bug of caching in a finally clause.
ProcessVideoRaisesCaching(j, message) ==
    /\ At(j, "process_video")
    /\ Raise(j, message)
    /\ transcript_cache' = Put(transcript_cache, tasks[j].video_id, tasks[j].result)
    /\ response' = NoResponse
    /\ UNCHANGED <<jobs, cache_file, GOOGLE_API_KEY, status_call, download_call,
                   submissions, last_saved>>

\* process_video raises an Exception whose str() is message.
ProcessVideoRaises(j, message) ==
    /\ At(j, "process_video")
    /\ Raise(j, message)
    /\ response' = NoResponse
    /\ UNCHANGED <<jobs, transcript_cache, cache_file, GOOGLE_API_KEY, status_call, download_call,
                   submissions, last_saved>>

\* -------------------------------------------------- run_job, lines 131-133
\* jobs[job_id]["result"] = result
SetResult(j) ==
    /\ At(j, "set_result")
    /\ jobs' = [jobs EXCEPT ![j].result = tasks[j].result]
    /\ tasks' = [tasks EXCEPT ![j].pc = "cache"]
    /\ response' = NoResponse
    /\ UNCHANGED <<transcript_cache, cache_file, GOOGLE_API_KEY, status_call, download_call,
                   submissions, last_saved>>

\* transcript_cache[video_id] = result
CacheResult(j) ==
    /\ At(j, "cache")
    /\ transcript_cache' = Put(transcript_cache, tasks[j].video_id, tasks[j].result)
    /\ tasks' = [tasks EXCEPT ![j].pc = "open"]
    /\ response' = NoResponse
    /\ UNCHANGED <<jobs, cache_file, GOOGLE_API_KEY, status_call, download_call, submissions, last_saved>>

\* ------------------------------------- run_job, line 134: save_cache(cache)
\* The text the writer of job j has produced and the file does not hold yet.
Buffered(j) == SubSeq(tasks[j].text, tasks[j].flushed + 1, Len(tasks[j].text))

\* The file after the writer of job j has flushed its buffer.  Each writer
\* has its own file offset: the end of what it has written itself.
Flushed(j) ==
    IF Buffered(j) = <<>> THEN cache_file
    ELSE WriteAt(cache_file, tasks[j].flushed + 1, Buffered(j))

\* open(CACHE_FILE, "w") creates or truncates the file; json.dump then asks
\* the encoder for its first chunk, "{", which starts the iteration over
\* the dict.  (The dict is never empty here: line 133 has just put a key.)
SaveOpen(j) ==
    /\ At(j, "open")
    /\ cache_file' = <<>>
    /\ tasks' = [tasks EXCEPT ![j].pc = "dump",
                              ![j].used = Len(transcript_cache),
                              ![j].it = 0,
                              ![j].text = <<LBrace>>,
                              ![j].flushed = 0]
    /\ response' = NoResponse
    /\ UNCHANGED <<jobs, transcript_cache, GOOGLE_API_KEY, status_call, download_call, submissions, last_saved>>

\* The next chunk of json.dump.  The dict iterator raises RuntimeError when
\* the dict has changed size since the iteration began; the with statement
\* then closes the file, which flushes what was buffered.  After the last
\* item the encoder yields "}".
SaveNext(j) ==
    /\ At(j, "dump")
    /\ IF Len(transcript_cache) # tasks[j].used
       THEN /\ cache_file' = Flushed(j)
            /\ Raise(j, DictChangedSize)
       ELSE IF tasks[j].it < tasks[j].used
       THEN /\ tasks' = [tasks EXCEPT
                   ![j].it = @ + 1,
                   ![j].text = Append(@, Item(transcript_cache[tasks[j].it + 1].k,
                                              transcript_cache[tasks[j].it + 1].v))]
            /\ UNCHANGED cache_file
       ELSE /\ tasks' = [tasks EXCEPT ![j].pc = "close", ![j].used = 0, ![j].it = 0,
                                      ![j].text = Append(@, RBrace)]
            /\ UNCHANGED cache_file
    /\ response' = NoResponse
    /\ UNCHANGED <<jobs, transcript_cache, GOOGLE_API_KEY, status_call, download_call, submissions, last_saved>>

\* The file object writes its buffer to the file when the buffer is full;
\* how much text that takes depends on the sizes of the results.
SaveFlush(j) ==
    /\ At(j, "dump") \/ At(j, "close")
    /\ Buffered(j) # <<>>
    /\ cache_file' = Flushed(j)
    /\ tasks' = [tasks EXCEPT ![j].flushed = Len(tasks[j].text)]
    /\ response' = NoResponse
    /\ UNCHANGED <<jobs, transcript_cache, GOOGLE_API_KEY, status_call, download_call, submissions, last_saved>>

\* Leaving the with statement closes the file, which flushes the buffer;
\* save_cache and then run_job return.
SaveClose(j) ==
    /\ At(j, "close")
    /\ cache_file' = Flushed(j)
    /\ tasks' = [tasks EXCEPT ![j].pc = "done", ![j].flushed = Len(tasks[j].text)]
    /\ last_saved' = tasks[j].text
    /\ response' = NoResponse
    /\ UNCHANGED <<jobs, transcript_cache, GOOGLE_API_KEY, status_call, download_call, submissions>>

\* open() raises PermissionError: the file is not touched.
SaveOpenFails(j) ==
    /\ At(j, "open")
    /\ Raise(j, PermissionDenied)
    /\ response' = NoResponse
    /\ UNCHANGED <<jobs, transcript_cache, cache_file, GOOGLE_API_KEY, status_call, download_call,
                   submissions, last_saved>>

\* A write to the open file raises OSError (the disk is full): what was
\* buffered is lost, what was flushed stays.
SaveWriteFails(j) ==
    /\ At(j, "dump") \/ At(j, "close")
    /\ Raise(j, NoSpaceLeft)
    /\ response' = NoResponse
    /\ UNCHANGED <<jobs, transcript_cache, cache_file, GOOGLE_API_KEY, status_call, download_call,
                   submissions, last_saved>>

\* ------------------------------------------------------- run_job, line 136
\* ExceptStatus with the bug of leaving the status as it is.
ExceptStatusSkipped(j) ==
    /\ At(j, "except_status")
    /\ tasks' = [tasks EXCEPT ![j].pc = "except_error"]
    /\ response' = NoResponse
    /\ UNCHANGED <<jobs, transcript_cache, cache_file, GOOGLE_API_KEY, status_call,
                   download_call, submissions, last_saved>>

\* jobs[job_id]["status"] = "error"
ExceptStatus(j) ==
    /\ At(j, "except_status")
    /\ jobs' = [jobs EXCEPT ![j].status = "error"]
    /\ tasks' = [tasks EXCEPT ![j].pc = "except_error"]
    /\ response' = NoResponse
    /\ UNCHANGED <<transcript_cache, cache_file, GOOGLE_API_KEY, status_call, download_call,
                   submissions, last_saved>>

\* ------------------------------------------------------- run_job, line 137
\* ExceptError with the bug of returning before line 137 has run.
ExceptErrorSkipped(j) ==
    /\ At(j, "except_error")
    /\ tasks' = [tasks EXCEPT ![j].pc = "done"]
    /\ response' = NoResponse
    /\ UNCHANGED <<jobs, transcript_cache, cache_file, GOOGLE_API_KEY, status_call, download_call,
                   submissions, last_saved>>

\* jobs[job_id]["error"] = str(e); run_job returns.
ExceptError(j) ==
    /\ At(j, "except_error")
    /\ jobs' = [jobs EXCEPT ![j].error = tasks[j].e]
    /\ tasks' = [tasks EXCEPT ![j].pc = "done"]
    /\ response' = NoResponse
    /\ UNCHANGED <<transcript_cache, cache_file, GOOGLE_API_KEY, status_call, download_call,
                   submissions, last_saved>>

\* ---------------------------------------------------- GET /status/{job_id}
\* status() has no await, so no other handler runs during it, but the
\* worker threads do: each read of the job's dict is a step of its own.
InStatus(pc) == status_call.pc = pc

StatusReturn(r) ==
    /\ response' = r
    /\ status_call' = NoCall

\* job = jobs.get(job_id); the 404; response = {"status": job["status"], ...
StatusBegin(job_id) ==
    /\ InStatus("idle")
    /\ download_call.pc = "idle"
    /\ IF job_id \notin JobIds
       THEN StatusReturn(HTTPException("status", 404, "Job not found"))
       ELSE /\ status_call' =
                   [pc |-> "progress", job_id |-> job_id,
                    response |-> [Reply("status", 200) EXCEPT
                                     !.job_id = job_id,
                                     !.status = jobs[job_id].status,
                                     !.has = {"status"}]]
            /\ response' = NoResponse
    /\ UNCHANGED <<jobs, transcript_cache, cache_file, GOOGLE_API_KEY, tasks,
                   download_call, submissions, last_saved>>

\* ... "progress": job["progress"]}
StatusReadProgress ==
    /\ InStatus("progress")
    /\ status_call' =
           [status_call EXCEPT !.pc = "if_completed",
                               !.response.progress = jobs[status_call.job_id].progress,
                               !.response.has = @ \cup {"progress"}]
    /\ response' = NoResponse
    /\ UNCHANGED <<jobs, transcript_cache, cache_file, GOOGLE_API_KEY, tasks,
                   download_call, submissions, last_saved>>

\* if job["status"] == "completed":
StatusIfCompleted ==
    /\ InStatus("if_completed")
    /\ status_call' =
           [status_call EXCEPT !.pc = IF jobs[status_call.job_id].status = "completed"
                                      THEN "result" ELSE "elif_error"]
    /\ response' = NoResponse
    /\ UNCHANGED <<jobs, transcript_cache, cache_file, GOOGLE_API_KEY, tasks,
                   download_call, submissions, last_saved>>

\* response["result"] = {"title": job["result"]["title"], ...}; subscripting
\* None raises TypeError, which the framework answers with a 500.  A result
\* that is set stays set, so the three reads of job["result"] are one step.
StatusReadResult ==
    /\ InStatus("result")
    /\ LET result == jobs[status_call.job_id].result
       IN  IF result = None
           THEN StatusReturn(HTTPException("status", 500, "Internal Server Error"))
           ELSE StatusReturn([status_call.response EXCEPT
                                 !.result = ResultFields[result],
                                 !.has = @ \cup {"result"}])
    /\ UNCHANGED <<jobs, transcript_cache, cache_file, GOOGLE_API_KEY, tasks,
                   download_call, submissions, last_saved>>

\* elif job["status"] == "error":
StatusElifError ==
    /\ InStatus("elif_error")
    /\ IF jobs[status_call.job_id].status = "error"
       THEN /\ status_call' = [status_call EXCEPT !.pc = "error"]
            /\ response' = NoResponse
       ELSE StatusReturn(status_call.response)
    /\ UNCHANGED <<jobs, transcript_cache, cache_file, GOOGLE_API_KEY, tasks,
                   download_call, submissions, last_saved>>

\* response["error"] = job["error"]; return response
StatusReadError ==
    /\ InStatus("error")
    /\ StatusReturn([status_call.response EXCEPT
                        !.error = jobs[status_call.job_id].error,
                        !.has = @ \cup {"error"}])
    /\ UNCHANGED <<jobs, transcript_cache, cache_file, GOOGLE_API_KEY, tasks,
                   download_call, submissions, last_saved>>

\* ----------------------------- GET /download/{job_id}, /download/{job_id}/pdf
\* allowed_fonts of download_pdf.
allowed_fonts ==
    { "Arial", "Calibri", "Comic Sans MS", "Garamond", "Georgia", "Tahoma",
      "Times New Roman", "Wingdings" }

\* The default of the font parameter, and the fallback.
DefaultFont == "Times New Roman"

\* Values of the font parameter of a request: two of the list, the default,
\* a name in the wrong case, a font that is not listed, and text that would
\* close the declaration and start another rule.
Fonts ==
    { "Arial", "Wingdings", DefaultFont, "arial", "Helvetica",
      "x\"; } body { display: none; } h3 { font-family: \"x" }

\* SanitizeFont with the bug of trusting the parameter.
SanitizeFontTrusting(font) == font

\* if font not in allowed_fonts: font = "Times New Roman"
SanitizeFont(font) == IF font \notin allowed_fonts THEN DefaultFont ELSE font

\* The text of the stylesheet, cut where the font is interpolated.
Stylesheet(font) ==
    << "@page { margin: 1in; size: letter; } body { font-family: \"", font,
       "\", sans-serif; font-size: 12pt; ... } h1 { font-family: \"", font,
       "\", sans-serif; font-size: 18pt; ... } h2 { font-family: \"", font,
       "\", sans-serif; font-size: 14pt; ... } img { ... } ul, ol { ... } li { ... }" >>

Downloads == {"download", "download_pdf"}

\* DownloadBegin with the bug of not looking at the status of the job.
DownloadBeginUnchecked(handler, job_id) ==
    /\ download_call.pc = "idle"
    /\ InStatus("idle")
    /\ IF job_id \notin JobIds
       THEN /\ response' = [HTTPException(handler, 404, "Job not found") EXCEPT
                                !.job_id = job_id]
            /\ UNCHANGED download_call
       ELSE /\ download_call' = [pc |-> "result", handler |-> handler,
                               job_id |-> job_id, status |-> jobs[job_id].status]
            /\ response' = NoResponse
    /\ UNCHANGED <<jobs, transcript_cache, cache_file, GOOGLE_API_KEY, tasks,
                   status_call, submissions, last_saved>>

\* job = jobs.get(job_id), the 404, and the 400 when job["status"] is not
\* "completed": the same lines in download and in download_pdf.
DownloadBegin(handler, job_id) ==
    /\ download_call.pc = "idle"
    /\ InStatus("idle")
    /\ IF job_id \notin JobIds
       THEN /\ response' = [HTTPException(handler, 404, "Job not found") EXCEPT
                                !.job_id = job_id]
            /\ UNCHANGED download_call
       ELSE IF jobs[job_id].status # "completed"
       THEN /\ response' = [HTTPException(handler, 400, "Job not completed") EXCEPT
                                !.job_id = job_id]
            /\ UNCHANGED download_call
       ELSE /\ download_call' = [pc |-> "result", handler |-> handler,
                               job_id |-> job_id, status |-> jobs[job_id].status]
            /\ response' = NoResponse
    /\ UNCHANGED <<jobs, transcript_cache, cache_file, GOOGLE_API_KEY, tasks,
                   status_call, submissions, last_saved>>

\* result = job["result"] and the rest of the handler, which reads nothing
\* shared: subscripting None raises TypeError, answered with a 500.  font is
\* the font parameter of the request; download() has none and builds no
\* stylesheet.  The Content-Disposition header is not modelled.
DownloadResult(font) ==
    /\ download_call.pc = "result"
    /\ LET job_id == download_call.job_id
           handler == download_call.handler
           result == jobs[job_id].result
       IN  response' =
               IF result = None
               THEN [HTTPException(handler, 500, "Internal Server Error") EXCEPT
                        !.job_id = job_id]
               ELSE IF handler = "download"
               THEN [Reply(handler, 200) EXCEPT
                        !.job_id = job_id,
                        !.media_type = "text/markdown",
                        !.content = ResultFields[result].markdown]
               ELSE [Reply(handler, 200) EXCEPT
                        !.job_id = job_id,
                        !.media_type = "application/pdf",
                        !.content = ResultFields[result].markdown,
                        !.title = ResultFields[result].title,
                        !.font = font,
                        !.stylesheet = Stylesheet(SanitizeFont(font))]
    /\ download_call' = NoDownload
    /\ UNCHANGED <<jobs, transcript_cache, cache_file, GOOGLE_API_KEY, tasks,
                   status_call, submissions, last_saved>>

\* ------------------------------------------------------------------- Next
\* A job id no job has.
UnknownJob == 0

\* Submissions and the background tasks of up to MaxJobs jobs, running
\* concurrently.  Progress messages and status polls, which touch neither the
\* cache nor the file nor a job's status, result and error, are left to
\* SpecPolling.
Next ==
    \/ \E u \in Urls : Transcribe(u)
    \/ \E j \in JobIds, r \in Results : ProcessVideoReturns(j, r)
    \/ \E j \in JobIds, m \in ProcessErrors : ProcessVideoRaises(j, m)
    \/ \E j \in JobIds : SetResult(j)
    \/ \E j \in JobIds : CacheResult(j)
    \/ \E j \in JobIds : SaveOpen(j)
    \/ \E j \in JobIds : SaveNext(j)
    \/ \E j \in JobIds : SaveFlush(j)
    \/ \E j \in JobIds : SaveClose(j)
    \/ \E j \in JobIds : SaveOpenFails(j)
    \/ \E j \in JobIds : SaveWriteFails(j)
    \/ \E j \in JobIds : ExceptStatus(j)
    \/ \E j \in JobIds : ExceptError(j)

Spec == Init /\ [][Next]_vars

\* Every operation, with up to MaxPolledJobs jobs: a client submits, the
\* task runs and reports progress, and the client polls the status and
\* downloads.
NextPolling ==
    \/ \E u \in Urls : Transcribe(u) /\ Len(jobs') <= MaxPolledJobs
    \/ \E j \in JobIds, m \in Messages : ProgressCallback(j, m)
    \/ \E j \in JobIds, r \in Results : ProcessVideoReturns(j, r)
    \/ \E j \in JobIds, m \in ProcessErrors : ProcessVideoRaises(j, m)
    \/ \E j \in JobIds : SetResult(j)
    \/ \E j \in JobIds : CacheResult(j)
    \/ \E j \in JobIds : SaveOpen(j)
    \/ \E j \in JobIds : SaveNext(j)
    \/ \E j \in JobIds : SaveFlush(j)
    \/ \E j \in JobIds : SaveClose(j)
    \/ \E j \in JobIds : SaveOpenFails(j)
    \/ \E j \in JobIds : SaveWriteFails(j)
    \/ \E j \in JobIds : ExceptStatus(j)
    \/ \E j \in JobIds : ExceptError(j)
    \/ \E job_id \in JobIds \cup {UnknownJob} : StatusBegin(job_id)
    \/ StatusReadProgress
    \/ StatusIfCompleted
    \/ StatusReadResult
    \/ StatusElifError
    \/ StatusReadError
    \/ \E h \in Downloads, job_id \in JobIds \cup {UnknownJob} : DownloadBegin(h, job_id)
    \/ \E font \in Fonts : DownloadResult(font)

SpecPolling == Init /\ [][NextPolling]_vars

\* A step of the task of job j other than a progress message: process_video
\* returns or raises, or run_job executes its next statement.
TaskStep(j) ==
    \/ \E r \in Results : ProcessVideoReturns(j, r)
    \/ \E m \in ProcessErrors : ProcessVideoRaises(j, m)
    \/ SetResult(j)
    \/ CacheResult(j)
    \/ SaveOpen(j)
    \/ SaveNext(j)
    \/ SaveFlush(j)
    \/ SaveClose(j)
    \/ SaveOpenFails(j)
    \/ SaveWriteFails(j)
    \/ ExceptStatus(j)
    \/ ExceptError(j)

\* The thread pool runs every task it was given, and a thread that can run
\* is eventually run; process_video eventually returns or raises.
Fairness == \A j \in 1..MaxJobs : WF_vars(TaskStep(j))

\* SpecPolling under fair scheduling of the tasks; the clients are free to
\* stop, or to poll and download for ever.
SpecFair == Init /\ [][NextPolling]_vars /\ Fairness

\* ------------------------------------------------------ cache persistence
\* A Python string is a sequence of characters.  The characters that matter
\* to the encoder: a letter, the quote, the backslash, an n (which follows a
\* backslash in the escape of a newline), the newline, and one that is not
\* ASCII.
Chars == {"T", "\"", "\\", "n", "\n", "é"}

RECURSIVE StringsUpTo(_)
StringsUpTo(n) ==
    IF n = 0 THEN {<<>>}
    ELSE LET shorter == StringsUpTo(n - 1)
         IN  shorter \cup {Append(s, c) : s \in shorter, c \in Chars}

Strings == StringsUpTo(MaxStr)

\* The four hex digits json.dump writes for a character, ensure_ascii being
\* true, and the character json.load reads for them.
Hex(c) == IF c = "é" THEN "00e9" ELSE "0000"
Chr(hex) == IF hex = "00e9" THEN "é" ELSE "?"

\* The text json.dump writes between the quotes for the string s.
RECURSIVE Escape(_)
Escape(s) ==
    IF s = <<>> THEN <<>>
    ELSE LET c == Head(s)
             text == IF c \in {"\"", "\\"} THEN <<"\\", c>>
                     ELSE IF c = "\n" THEN <<"\\", "n">>
                     ELSE IF c = "é" THEN <<"\\", "u", Hex(c)>>
                     ELSE <<c>>
         IN  text \o Escape(Tail(s))

\* Unescape with the bug of taking the text as it is.
UnescapeNothing(text) == text

\* The string json.load reads from the text between two quotes.
RECURSIVE Unescape(_)
Unescape(text) ==
    IF text = <<>> THEN <<>>
    ELSE IF Head(text) # "\\" THEN <<Head(text)>> \o Unescape(Tail(text))
    ELSE IF text[2] = "u" THEN <<Chr(text[3])>> \o Unescape(SubSeq(text, 4, Len(text)))
    ELSE <<IF text[2] = "n" THEN "\n" ELSE text[2]>>
             \o Unescape(SubSeq(text, 3, Len(text)))

EncodeStr(s) == <<"\"">> \o Escape(s) \o <<"\"">>
DecodeStr(text) == Unescape(SubSeq(text, 2, Len(text) - 1))

\* A result structure is a dict of strings; its text, member by member.
EncodeResult(r) == [f \in DOMAIN r |-> EncodeStr(r[f])]
DecodeResult(text) == [f \in DOMAIN text |-> DecodeStr(text[f])]

\* json.dump(cache, f), the whole text, and what json.load makes of the
\* items of a text that parses.
json_dump(cache) ==
    Dumps([i \in 1..Len(cache) |->
              [k |-> EncodeStr(cache[i].k), v |-> EncodeResult(cache[i].v)]])

json_load(d) ==
    [i \in 1..Len(d) |-> [k |-> DecodeStr(d[i].k), v |-> DecodeResult(d[i].v)]]

\* The result structures process_video returns for the title s.
ResultOf(s) ==
    [title |-> s, markdown |-> <<"#", " ">> \o s, filename |-> s \o <<".md">>]

\* The mappings of up to two video ids to result structures.
CacheKeys == {<<"abc123">>, <<"xyz789">>}

Mappings ==
    {<<>>}
    \cup {<<[k |-> k, v |-> ResultOf(s)]>> : k \in CacheKeys, s \in Strings}
    \cup {<<[k |-> p[1], v |-> ResultOf(s1)], [k |-> p[2], v |-> ResultOf(s2)]>> :
            p \in {q \in CacheKeys \X CacheKeys : q[1] # q[2]},
            s1 \in Strings, s2 \in Strings}

\* Files that were not written by a save that returned: none, an empty one,
\* and one of NUL bytes.
StrayFiles == {Missing, <<>>, <<Nul, Nul>>}

InitCache ==
    /\ jobs = <<>>
    /\ tasks = <<>>
    /\ submissions = <<>>
    /\ status_call = NoCall
    /\ download_call = NoDownload
    /\ GOOGLE_API_KEY = None
    /\ response = NoResponse
    /\ transcript_cache \in Mappings
    /\ cache_file \in StrayFiles
    /\ last_saved = cache_file

\* save_cache(transcript_cache), with no other writer, returns.
SaveCache ==
    /\ cache_file' = json_dump(transcript_cache)
    /\ last_saved' = cache_file'
    /\ response' = Reply("save_cache", 200)
    /\ UNCHANGED <<jobs, transcript_cache, GOOGLE_API_KEY, tasks, status_call,
                   download_call, submissions>>

\* save_cache(transcript_cache) raises after open() emptied the file and n
\* pieces of the text reached it.
SaveCacheFails(n) ==
    /\ n < Len(json_dump(transcript_cache))
    /\ cache_file' = SubSeq(json_dump(transcript_cache), 1, n)
    /\ response' = HTTPException("save_cache", 500, NoSpaceLeft)
    /\ UNCHANGED <<jobs, transcript_cache, GOOGLE_API_KEY, tasks, status_call,
                   download_call, submissions, last_saved>>

\* The process starts again: transcript_cache = load_cache().  A load that
\* raises ends the start.
Startup ==
    /\ LET loaded == load_cache(cache_file)
       IN  IF loaded = JSONDecodeError
           THEN /\ response' = HTTPException("load_cache", 500, "JSONDecodeError")
                /\ UNCHANGED transcript_cache
           ELSE /\ response' = Reply("load_cache", 200)
                /\ transcript_cache' = json_load(loaded)
    /\ UNCHANGED <<jobs, cache_file, GOOGLE_API_KEY, tasks, status_call,
                   download_call, submissions, last_saved>>

NextCache ==
    \/ SaveCache
    \/ \E n \in 0..(Cardinality(CacheKeys) + 1) : SaveCacheFails(n)
    \/ Startup

\* Saving and loading the cache, one process after another, with no
\* concurrent writer.
SpecCache == InitCache /\ [][NextCache]_vars

\* ----------------------------------------------------------------- claims
\* What the task of job j has been through.
Finished(j) == tasks[j].pc = "done"

\* process_video raised in the task of job j.
ProcessVideoRaised(j) == tasks[j].e \in ProcessErrors

\* process_video returned in the task of job j and save_cache then raised.
SaveRaised(j) == tasks[j].result # None /\ tasks[j].e \in SaveErrors

\* process_video returned in the task of job j and save_cache returned.
Saved(j) == Finished(j) /\ tasks[j].result # None /\ tasks[j].e = None

\* A save_cache call has opened the file and not yet closed it.
Saving(j) == tasks[j].pc \in {"dump", "close"}

\* C1: the status of a job changes at most once, from "processing" to
\* "completed" or "error": a status other than "processing" stays as it is.
C1_StatusChangesOnce ==
    [][\A j \in JobIds :
          jobs[j].status # "processing" => jobs'[j].status = jobs[j].status]_vars

\* C2: when process_video has returned a result and save_cache has raised,
\* the job ends "completed" with that result and with no error.
C2_CompletedThoughSaveFailed ==
    \A j \in JobIds :
        Finished(j) /\ SaveRaised(j) =>
            /\ jobs[j].status = "completed"
            /\ jobs[j].result = tasks[j].result
            /\ jobs[j].error = None

\* C3: in every state a job has a result exactly when its status is
\* "completed".
C3_ResultIffCompleted ==
    \A j \in JobIds : (jobs[j].result # None) <=> (jobs[j].status = "completed")

\* C4: in every state a job has an error exactly when its status is "error".
C4_ErrorIffError ==
    \A j \in JobIds : (jobs[j].error # None) <=> (jobs[j].status = "error")

\* C5: a submission for a video of which some job read "completed" at that
\* moment creates a job that is completed from the start, has no task, and
\* carries the result of that earlier job.
C5_CacheHitAfterCompleted ==
    \A j \in JobIds :
        submissions[j].seen # {} =>
            /\ submissions[j].cached
            /\ tasks[j].pc = "none"
            /\ jobs[j].status = "completed"
            /\ \A r \in submissions[j].seen : jobs[j].result = r

\* C6: when process_video has raised, the exception is caught: run_job goes
\* through its except clause and returns, the job's result stays None, its
\* status is "error" from line 136 on, and when run_job has returned its
\* error is the message of the exception.
C6_ProcessErrorRecorded ==
    \A j \in JobIds :
        ProcessVideoRaised(j) =>
            /\ tasks[j].pc \in {"except_status", "except_error", "done"}
            /\ jobs[j].result = None
            /\ jobs[j].status =
                   IF tasks[j].pc = "except_status" THEN "processing" ELSE "error"
            /\ Finished(j) => jobs[j].error = tasks[j].e

\* A task has finished after process_video raised.
C6_Witness ==
    \E j \in JobIds : Finished(j) /\ ProcessVideoRaised(j)

\* C7: when process_video has returned r for a job of video v and save_cache
\* returns, the job is "completed" with result r, transcript_cache maps v to
\* r, and the file decodes to a mapping that maps v to r.
C7_SavedEverywhere ==
    [][\A j \in JobIds :
          (tasks[j].pc = "close" /\ tasks'[j].pc = "done") =>
              /\ jobs'[j].status = "completed"
              /\ jobs'[j].result = tasks[j].result
              /\ Has(transcript_cache', tasks[j].video_id)
              /\ Get(transcript_cache', tasks[j].video_id) = tasks[j].result
              /\ WellFormed(cache_file')
              /\ Has(Loads(cache_file'), tasks[j].video_id)
              /\ Get(Loads(cache_file'), tasks[j].video_id) = tasks[j].result]_vars

\* C8: when a save_cache call has failed after opening the file, and no
\* other call is in progress, the file holds the complete text of the last
\* save_cache call that returned.
C8_FailedSaveKeepsFile ==
    \A j \in JobIds :
        /\ tasks[j].e = NoSpaceLeft
        /\ WellFormed(last_saved)
        /\ \A i \in JobIds : ~Saving(i)
        => cache_file = last_saved

\* C9: when two save_cache calls have overlapped or followed each other and
\* both have returned, and no save is in progress and none has failed, the
\* file is the complete text one of them wrote.
C9_FileIsOneSave ==
    LET saved == {j \in JobIds : Saved(j)}
    IN  /\ Cardinality(saved) >= 2
        /\ \A j \in JobIds : ~Saving(j) /\ ~SaveRaised(j)
        => /\ WellFormed(cache_file)
           /\ \E j \in saved : cache_file = tasks[j].text

\* C10: a status response for a job of the registry is a 200 built from one
\* snapshot of the job: it has the result fields exactly when the status it
\* gives is "completed", and an error message exactly when that status is
\* "error".
C10_StatusSnapshot ==
    response.handler = "status" /\ response.code # 404 =>
        /\ response.code = 200
        /\ {"status", "progress"} \subseteq response.has
        /\ ("result" \in response.has) <=> (response.status = "completed")
        /\ ("error" \in response.has) <=> (response.status = "error")
        /\ response.status = "error" => response.error # None

\* A step of download() or download_pdf().
DownloadStep == download_call' # download_call \/ response'.handler \in Downloads

\* C11: a download request for an unknown job id is answered 404; for a job
\* whose status, when the handler reads it, is "processing" or "error", 400
\* and no content; content is returned only to a request that read the status
\* "completed", and it is the artefact of that job's result; and no step of a
\* download changes the job registry, the cache or the cache file.
C11_DownloadOnlyCompleted ==
    [][DownloadStep =>
        /\ UNCHANGED <<jobs, transcript_cache, cache_file>>
        /\ download_call.pc = "idle" /\ response'.handler \in Downloads =>
              /\ response'.content = None
              /\ response'.code = IF response'.job_id \in JobIds THEN 400 ELSE 404
              /\ response'.job_id \in JobIds =>
                    jobs[response'.job_id].status \in {"processing", "error"}
        /\ download_call'.pc = "result" =>
              jobs[download_call'.job_id].status = "completed"
        /\ download_call.pc = "result" =>
              /\ response'.handler = download_call.handler
              /\ response'.job_id = download_call.job_id
              /\ response'.content # None =>
                    /\ response'.code = 200
                    /\ download_call.status = "completed"
                    /\ jobs[download_call.job_id].result # None
                    /\ response'.content =
                           ResultFields[jobs[download_call.job_id].result].markdown
    ]_vars

\* download_pdf has returned the content of a completed job.
C11_Witness ==
    /\ response.handler = "download_pdf"
    /\ response.code = 200
    /\ response.content # None
    /\ jobs[response.job_id].status = "completed"

\* The video id of a submitted URL, or None when the submission is rejected.
VideoIdOf(u) == IF Strip(u) = <<>> THEN None ELSE extract_video_id(Strip(u))

\* A transcribe() step that leaves the registry, the scheduled tasks, the
\* cache and the cache file as they were.
NothingCreated == UNCHANGED <<jobs, tasks, transcript_cache, cache_file>>

\* C12: a submission of a URL whose video id is not in the cache, when
\* GOOGLE_API_KEY is not configured, is answered 500 (not 400), and creates no
\* job, schedules no task and leaves the cache and its file unchanged.
C12_NoCredentialIs500 ==
    [][\A u \in Urls :
          /\ Transcribe(u)
          /\ VideoIdOf(u) # None
          /\ ~Has(transcript_cache, VideoIdOf(u))
          /\ GOOGLE_API_KEY = None
          => /\ response'.handler = "transcribe"
             /\ response'.code = 500
             /\ NothingCreated
    ]_vars

\* A submission has been answered 500 while the cache holds another video.
C12_Witness ==
    /\ response.handler = "transcribe"
    /\ response.code = 500
    /\ GOOGLE_API_KEY = None
    /\ transcript_cache # <<>>

\* C13: a submission whose URL is empty once stripped, or is rejected by
\* extract_video_id, is answered 400 whatever the cache holds, and creates no
\* job, schedules no task and leaves the registry, the cache and its file
\* unchanged.
C13_BadUrlIs400 ==
    [][\A u \in Urls :
          Transcribe(u) /\ VideoIdOf(u) = None
          => /\ response'.handler = "transcribe"
             /\ response'.code = 400
             /\ response'.detail = IF Strip(u) = <<>>
                                   THEN "URL is required"
                                   ELSE "Could not extract video ID"
             /\ NothingCreated
    ]_vars

\* A URL has been rejected after a job was created, with a cache that is not
\* empty.
C13_Witness ==
    /\ response.handler = "transcribe"
    /\ response.code = 400
    /\ response.detail = "Could not extract video ID"
    /\ jobs # <<>>
    /\ transcript_cache # <<>>

\* C19: a submission of a URL whose video id is in the cache, when
\* GOOGLE_API_KEY is not configured, is answered 200 with the id of a new job
\* that is "completed" with the cached result, and schedules no task.
C19_CacheHitNeedsNoKey ==
    [][\A u \in Urls :
          /\ Transcribe(u)
          /\ VideoIdOf(u) # None
          /\ Has(transcript_cache, VideoIdOf(u))
          /\ GOOGLE_API_KEY = None
          => /\ response' = TranscribeResponse(Len(jobs) + 1)
             /\ jobs' = Append(jobs, [status |-> "completed",
                                      progress |-> "Loaded from cache",
                                      result |-> Get(transcript_cache, VideoIdOf(u)),
                                      error |-> None])
             /\ tasks' = Append(tasks, NoTask)
             /\ UNCHANGED <<transcript_cache, cache_file>>
    ]_vars

\* A submission has created a completed job although no key is configured.
C19_Witness ==
    /\ GOOGLE_API_KEY = None
    /\ response.handler = "transcribe"
    /\ response.code = 200
    /\ jobs[response.job_id].status = "completed"
    /\ tasks[response.job_id] = NoTask

\* The values the progress field of job j has been given so far: the one it
\* was created with and the messages process_video has emitted.
ProgressWritten(j) ==
    {IF tasks[j].pc = "none" THEN "Loaded from cache" ELSE "Starting..."}
        \cup {tasks[j].emitted[i] : i \in 1..Len(tasks[j].emitted)}

C17_LoadNeverRaises ==
    response.handler = "load_cache" =>
        /\ response.code = 200
        /\ cache_file = Missing \/ ~WellFormed(cache_file) => transcript_cache = <<>>

\* The process has started on the file a failed save left: the beginning of
\* the text of a cache that was not empty.
C17_Witness ==
    /\ response.handler = "load_cache"
    /\ Len(cache_file) = 2
    /\ cache_file[1] = LBrace
    /\ cache_file[2].t = "item"
    /\ transcript_cache = <<>>

\* The places of a stylesheet where the font is interpolated.
FontPlaces == {2, 4, 6}

\* C18: in the stylesheet of a rendered download, the font interpolated is
\* in allowed_fonts at each of its places: it is the font parameter when that
\* is in allowed_fonts, and else "Times New Roman", and then no part of the
\* stylesheet is the parameter.
C18_FontAllowed ==
    response.handler = "download_pdf" /\ response.code = 200 =>
        /\ Len(response.stylesheet) = 7
        /\ \A i \in FontPlaces :
              /\ response.stylesheet[i] \in allowed_fonts
              /\ response.stylesheet[i] =
                    IF response.font \in allowed_fonts THEN response.font
                    ELSE "Times New Roman"
        /\ response.font \notin allowed_fonts =>
              \A i \in 1..Len(response.stylesheet) :
                  response.stylesheet[i] # response.font

\* A request whose font parameter is not in the list, and holds text that
\* would end the declaration, has been rendered with the default font.
C18_Witness ==
    /\ response.handler = "download_pdf"
    /\ response.code = 200
    /\ response.font \notin allowed_fonts \cup {"Helvetica", "arial"}
    /\ response.stylesheet[2] = "Times New Roman"

\* C20: a step of a task whose process_video call raised changes neither the
\* cache nor the cache file, and such a task has no result and never opened
\* the file; a key enters the cache only at line 133 of a task whose
\* process_video call returned; and a submission is a cache hit exactly when
\* its video id is in the cache.
C20_FailedTaskLeavesCache ==
    [][/\ \A j \in JobIds :
             tasks'[j].e \in ProcessErrors =>
                 /\ tasks'[j] # tasks[j] => UNCHANGED <<transcript_cache, cache_file>>
                 /\ tasks'[j].result = None
                 /\ tasks'[j].text = <<>>
       /\ transcript_cache' # transcript_cache =>
             \E j \in JobIds :
                 /\ tasks[j].pc = "cache"
                 /\ tasks[j].result # None
                 /\ tasks[j].e = None
                 /\ transcript_cache' =
                        Put(transcript_cache, tasks[j].video_id, tasks[j].result)
       /\ Len(jobs') > Len(jobs) =>
             LET new == submissions'[Len(jobs')]
             IN  /\ new.cached = Has(transcript_cache, new.video_id)
                 /\ jobs'[Len(jobs')].status =
                        IF new.cached THEN "completed" ELSE "processing"
    ]_vars

\* The task of the first job failed in process_video and ended, and the
\* submission just answered, for the same video, was a cache miss.
C20_Witness ==
    /\ Len(jobs) = 2
    /\ response = TranscribeResponse(2)
    /\ Finished(1)
    /\ ProcessVideoRaised(1)
    /\ submissions[2].video_id = submissions[1].video_id
    /\ ~submissions[2].cached
    /\ jobs[2].status = "processing"

====
